---- MODULE Spec2Model ----
(***************************************************************************)
(* Model of the moderation/ACL store of the okay relay (src/database.go)   *)
(* and of the management handlers that call it (src/unnamed/part_000).     *)
(*                                                                         *)
(* The store keeps its state in PostgreSQL relations.  Every relation is   *)
(* modelled as a function from its primary key to the stored attribute,    *)
(* with NoRow for an absent row.  The handlers run concurrently (one       *)
(* goroutine per HTTP request); each statement is one atomic step.         *)
(* Statements inside a database/sql transaction run at the engine's        *)
(* default READ COMMITTED isolation: a statement sees the committed rows   *)
(* plus the transaction's own writes, a written key stays locked until     *)
(* commit or rollback, and a statement that needs a key locked by another  *)
(* transaction waits (its step is disabled).  Every statement, Begin and   *)
(* Commit can fail with a storage error, as the code's err != nil branches *)
(* provide for.                                                            *)
(***************************************************************************)
EXTENDS Integers, FiniteSets, Sequences, TLC

\* ---------------------------------------------------------------- bounds
NumEvents  == 2
NumReasons == 2
NumKinds   == 2
NumPubkeys == 2
NumMethods == 2
NumAddrs   == 2
NumValues  == 2
MaxRows    == 1

\* ------------------------------------------------------- program constants
EmptyId == 0    \* the empty string "" passed as an id / pubkey
NoRow   == 0    \* no row stored under the key (sql.ErrNoRows, EXISTS = false)
KindRow == 1    \* a kind relation's row has no attribute besides its key

EventIds == 1..NumEvents
Reasons  == 1..NumReasons
Kinds    == 1..NumKinds
Pubkeys  == 1..NumPubkeys
Methods  == 1..NumMethods
Addrs    == 1..NumAddrs

\* The event id the checked moderation scenarios are about.  Rows of
\* different ids never interact (every statement names one primary key, and
\* locks are per row), so the calls of one scenario all name this id.
ModeratedIds == {1}
\* The ids of the sequential scenarios: that event and one other.
TwoIds == {1, 2}

\* The concurrent callers of the store: requests served by the HTTP server.
Callers == {1, 2}
\* Sequential use of the store: one request at a time.
OneCaller == {1}

\* Error values returned by the operations (nil is ErrNone).
ErrNone            == "nil"
ErrInvalidArgument == "cannot be empty"
ErrNotFound        == "not found in allowed list"
ErrStorage         == "storage error"
ErrDeadlock        == "deadlock detected"

VARIABLES
  allowed_pubkeys,            \* [Pubkeys -> Reasons \cup {NoRow}]
  banned_pubkeys,             \* [Pubkeys -> Reasons \cup {NoRow}]
  events_needing_moderation,  \* [EventIds -> Reasons \cup {NoRow}]
  allowed_events,             \* [EventIds -> Reasons \cup {NoRow}]
  banned_events,              \* [EventIds -> Reasons \cup {NoRow}]
  allowed_kinds,              \* [Kinds -> {NoRow, KindRow}]
  disallowed_kinds,           \* [Kinds -> {NoRow, KindRow}]
  admins,                     \* [Pubkeys -> [row : BOOLEAN, methods : SUBSET Methods]]
  allowed_order,              \* allowed_pubkeys' keys in created_at order
  blocked_ips,                \* [Addrs -> Reasons \cup {NoRow}]
  relay_info,                 \* [InfoKeys -> [row : BOOLEAN, value : InfoValues]]
  Info,                       \* relay.Info: the advertised name, description, icon
  RELAY_PUBKEY,               \* the environment's owner pubkey, "" when unset
  call,                       \* per caller: the call in progress or last finished
  tx                          \* per caller: uncommitted writes of its transaction

tables == <<allowed_pubkeys, banned_pubkeys, events_needing_moderation,
            allowed_events, banned_events, allowed_kinds, disallowed_kinds,
            admins, allowed_order, blocked_ips, relay_info>>
vars == <<allowed_pubkeys, banned_pubkeys, events_needing_moderation,
          allowed_events, banned_events, allowed_kinds, disallowed_kinds,
          admins, allowed_order, blocked_ips, relay_info, Info, RELAY_PUBKEY,
          call, tx>>

\* What the event, kind and admin operations never touch.
newer == <<blocked_ips, relay_info, Info, RELAY_PUBKEY>>

\* relay_info keys and values; EmptyValue is the empty string.
InfoKeys == {"name", "description", "icon"}
EmptyValue == 0
InfoValues == 0..NumValues
NoInfo == [row |-> FALSE, value |-> EmptyValue]
\* relay.Info as main sets it from RELAY_NAME, RELAY_DESCRIPTION, RELAY_ICON.
DefaultInfo == [k \in InfoKeys |-> 1]

\* admins.methods is an array column, read back as a set of method names;
\* NoAdmin is the absent row.
NoAdmin == [row |-> FALSE, methods |-> {}]

\* initTables: CREATE TABLE IF NOT EXISTS on a fresh database: all empty.
initTables ==
  /\ allowed_pubkeys = [k \in Pubkeys |-> NoRow]
  /\ banned_pubkeys = [k \in Pubkeys |-> NoRow]
  /\ events_needing_moderation = [k \in EventIds |-> NoRow]
  /\ allowed_events = [k \in EventIds |-> NoRow]
  /\ banned_events = [k \in EventIds |-> NoRow]
  /\ allowed_kinds = [k \in Kinds |-> NoRow]
  /\ disallowed_kinds = [k \in Kinds |-> NoRow]
  /\ admins = [k \in Pubkeys |-> NoAdmin]
  /\ allowed_order = <<>>
  /\ blocked_ips = [k \in Addrs |-> NoRow]
  /\ relay_info = [k \in InfoKeys |-> NoInfo]

IdleCall == [op |-> "none", id |-> EmptyId, reason |-> NoRow, methods |-> {},
             cur |-> {}, warn |-> ErrNone, pc |-> "idle", err |-> ErrNone, interfered |-> FALSE,
             user |-> EmptyId, reject |-> FALSE, value |-> EmptyValue]

\* The state once main has built the store and the relay; RELAY_PUBKEY is
\* not set in the environment.
Init ==
  /\ initTables
  /\ Info = DefaultInfo
  /\ RELAY_PUBKEY = EmptyId
  /\ call = [p \in Callers |-> IdleCall]
  /\ tx = [p \in Callers |-> {}]

\* The same with RELAY_PUBKEY set to any pubkey, or not set.
InitConfigured ==
  /\ initTables
  /\ Info = DefaultInfo
  /\ RELAY_PUBKEY \in Pubkeys \cup {EmptyId}
  /\ call = [p \in Callers |-> IdleCall]
  /\ tx = [p \in Callers |-> {}]

\* ------------------------------------------------ READ COMMITTED semantics
Committed(tbl) ==
  CASE tbl = "events_needing_moderation" -> events_needing_moderation
    [] tbl = "allowed_events" -> allowed_events
    [] tbl = "banned_events" -> banned_events
    [] tbl = "allowed_kinds" -> allowed_kinds
    [] tbl = "disallowed_kinds" -> disallowed_kinds

Wrote(p, tbl, k) == \E w \in tx[p] : w.tbl = tbl /\ w.key = k
OwnWrite(p, tbl, k) == CHOOSE w \in tx[p] : w.tbl = tbl /\ w.key = k

\* The row a statement of caller p's transaction sees under key k.
Visible(p, tbl, k) ==
  IF Wrote(p, tbl, k) THEN OwnWrite(p, tbl, k).val ELSE Committed(tbl)[k]

\* Another transaction holds the row lock / the unique-index entry of k.
LockedByOther(p, tbl, k) == \E q \in Callers \ {p} : Wrote(q, tbl, k)

Write(p, tbl, k, v) ==
  {w \in tx[p] : ~(w.tbl = tbl /\ w.key = k)} \cup {[tbl |-> tbl, key |-> k, val |-> v]}

\* INSERT ... ON CONFLICT (key) DO UPDATE SET reason = v
CanUpsert(p, tbl, k) == ~LockedByOther(p, tbl, k)
Upsert(p, tbl, k, v) == Write(p, tbl, k, v)

\* INSERT ... ON CONFLICT (key) DO NOTHING
CanInsertIgnore(p, tbl, k) == ~LockedByOther(p, tbl, k)
InsertIgnore(p, tbl, k, v) ==
  IF Visible(p, tbl, k) = NoRow THEN Write(p, tbl, k, v) ELSE tx[p]

\* DELETE FROM tbl WHERE key = k: a row the statement's snapshot does not
\* contain (another transaction's uncommitted insert) is skipped without
\* waiting; a visible row locked by another transaction is waited for.
CanDelete(p, tbl, k) == Visible(p, tbl, k) # NoRow => ~LockedByOther(p, tbl, k)
Delete_NoWhere(p, tbl, k) ==
  {w \in tx[p] : w.tbl # tbl} \cup
  {[tbl |-> tbl, key |-> k2, val |-> NoRow] : k2 \in DOMAIN Committed(tbl)}
Delete(p, tbl, k) ==
  IF Visible(p, tbl, k) = NoRow THEN tx[p] ELSE Write(p, tbl, k, NoRow)

\* The committed rows of tbl once the writes ws are made visible.
ApplyWrites(ws, tbl) ==
  [k \in DOMAIN Committed(tbl) |->
     IF \E w \in ws : w.tbl = tbl /\ w.key = k
     THEN (CHOOSE w \in ws : w.tbl = tbl /\ w.key = k).val
     ELSE Committed(tbl)[k]]

\* tx.Commit(): the transaction's writes become the committed rows.
Apply(p, tbl) == ApplyWrites(tx[p], tbl)

\* ------------------------------------------------------------ call control
Ready(p) == call[p].pc \in {"idle", "done"}
Active(p) == ~Ready(p)

\* A call of p starts.  It is interfered with if another call is in flight,
\* and so is every call in flight.  The record of a finished call is kept
\* until the next call of any caller starts.
Started(p, c) ==
  [q \in Callers |->
     IF q = p THEN [c EXCEPT !.interfered = \E r \in Callers \ {p} : Active(r)]
     ELSE IF Ready(q) THEN IdleCall
     ELSE [call[q] EXCEPT !.interfered = TRUE]]

NewCall(o, i, r, pcv, e) ==
  [op |-> o, id |-> i, reason |-> r, methods |-> {}, cur |-> {}, warn |-> ErrNone,
   pc |-> pcv, err |-> e, interfered |-> FALSE, user |-> EmptyId, reject |-> FALSE,
   value |-> EmptyValue]

Goto(p, pcv) == call' = [call EXCEPT ![p].pc = pcv]
Return(p, e) == call' = [call EXCEPT ![p].pc = "done", ![p].err = e]

\* defer tx.Rollback(): the uncommitted writes are dropped, locks released.
Rollback(p) == tx' = [tx EXCEPT ![p] = {}]

UnchangedTables ==
  UNCHANGED <<allowed_pubkeys, banned_pubkeys, events_needing_moderation,
              allowed_events, banned_events, allowed_kinds, disallowed_kinds,
              admins, allowed_order, blocked_ips, relay_info>>

\* dbm.db.Begin() after the argument check of a transactional operation.
BeginTx(p, o, i, r) ==
  /\ Ready(p)
  /\ UnchangedTables
  /\ UNCHANGED <<tx, Info, RELAY_PUBKEY>>
  /\ \/ /\ i = EmptyId /\ o \in {"AllowEvent", "BanEvent"}
        /\ call' = Started(p, NewCall(o, i, r, "done", ErrInvalidArgument))
     \/ /\ ~(i = EmptyId /\ o \in {"AllowEvent", "BanEvent"})
        /\ \/ call' = Started(p, NewCall(o, i, r, "s1", ErrNone))
           \/ call' = Started(p, NewCall(o, i, r, "done", ErrStorage))

\* The statements of the transactional operations, in program order.
AllowEventStmts_KeepsBan ==
  [s1 |-> [kind |-> "upsert", tbl |-> "allowed_events"],
   s2 |-> [kind |-> "delete", tbl |-> "events_needing_moderation"],
   s3 |-> [kind |-> "delete", tbl |-> "events_needing_moderation"]]

AllowEventStmts ==
  [s1 |-> [kind |-> "upsert", tbl |-> "allowed_events"],
   s2 |-> [kind |-> "delete", tbl |-> "events_needing_moderation"],
   s3 |-> [kind |-> "delete", tbl |-> "banned_events"]]

BanEventStmts_OnlyDeletes ==
  [s1 |-> [kind |-> "delete", tbl |-> "events_needing_moderation"],
   s2 |-> [kind |-> "delete", tbl |-> "events_needing_moderation"],
   s3 |-> [kind |-> "delete", tbl |-> "allowed_events"]]
BanEventStmts ==
  [s1 |-> [kind |-> "upsert", tbl |-> "banned_events"],
   s2 |-> [kind |-> "delete", tbl |-> "events_needing_moderation"],
   s3 |-> [kind |-> "delete", tbl |-> "allowed_events"]]

AllowKindStmts_KeepsDisallowed ==
  [s1 |-> [kind |-> "insert", tbl |-> "allowed_kinds"],
   s2 |-> [kind |-> "delete", tbl |-> "allowed_kinds"]]

AllowKindStmts ==
  [s1 |-> [kind |-> "insert", tbl |-> "allowed_kinds"],
   s2 |-> [kind |-> "delete", tbl |-> "disallowed_kinds"]]

DisallowKindStmts ==
  [s1 |-> [kind |-> "insert", tbl |-> "disallowed_kinds"],
   s2 |-> [kind |-> "delete", tbl |-> "allowed_kinds"]]

TxStmts(o) ==
  CASE o = "AllowEvent" -> AllowEventStmts
    [] o = "BanEvent" -> BanEventStmts
    [] o = "AllowKind" -> AllowKindStmts
    [] o = "DisallowKind" -> DisallowKindStmts

TxOps == {"AllowEvent", "BanEvent", "AllowKind", "DisallowKind"}

\* The statement caller p's transaction is at, if any.
AtStmt(p) == call[p].op \in TxOps /\ call[p].pc \in DOMAIN TxStmts(call[p].op)
Stmt(p) == TxStmts(call[p].op)[call[p].pc]

NextPc(o, at) ==
  IF at = "s1" THEN "s2"
  ELSE IF at = "s2" /\ "s3" \in DOMAIN TxStmts(o) THEN "s3"
  ELSE "commit"

CanExec(p, st, k) ==
  CASE st.kind = "upsert" -> CanUpsert(p, st.tbl, k)
    [] st.kind = "insert" -> CanInsertIgnore(p, st.tbl, k)
    [] st.kind = "delete" -> CanDelete(p, st.tbl, k)

Exec(p, st, k, v) ==
  CASE st.kind = "upsert" -> Upsert(p, st.tbl, k, v)
    [] st.kind = "insert" -> InsertIgnore(p, st.tbl, k, v)
    [] st.kind = "delete" -> Delete(p, st.tbl, k)

\* p waits for a lock of q while q waits for a lock of p: the engine's
\* deadlock detector aborts one of the two statements.
WaitsFor(p, q) ==
  /\ AtStmt(p)
  /\ ~CanExec(p, Stmt(p), call[p].id)
  /\ Wrote(q, Stmt(p).tbl, call[p].id)

Deadlocked(p) == \E q \in Callers \ {p} : WaitsFor(p, q) /\ WaitsFor(q, p)

\* ExecTx without the transaction: every statement is committed by itself.
ExecTx_AutoCommit(p, o, v) ==
  /\ call[p].op = o
  /\ AtStmt(p)
  /\ UNCHANGED <<allowed_pubkeys, banned_pubkeys, admins, allowed_order, newer>>
  /\ \/ /\ CanExec(p, Stmt(p), call[p].id)
        /\ LET ws == Exec(p, Stmt(p), call[p].id, v)
           IN /\ events_needing_moderation' = ApplyWrites(ws, "events_needing_moderation")
              /\ allowed_events' = ApplyWrites(ws, "allowed_events")
              /\ banned_events' = ApplyWrites(ws, "banned_events")
              /\ allowed_kinds' = ApplyWrites(ws, "allowed_kinds")
              /\ disallowed_kinds' = ApplyWrites(ws, "disallowed_kinds")
        /\ UNCHANGED tx
        /\ Goto(p, NextPc(o, call[p].pc))
     \/ /\ UNCHANGED <<events_needing_moderation, allowed_events, banned_events,
                       allowed_kinds, disallowed_kinds>>
        /\ Rollback(p)
        /\ Return(p, ErrStorage)

\* One tx.Exec of transactional operation o: it succeeds, or it fails (a
\* storage error, or the deadlock detector's abort), and then the deferred
\* Rollback runs and the error is returned.
ExecTx(p, o, v) ==
  /\ call[p].op = o
  /\ AtStmt(p)
  /\ UnchangedTables
  /\ UNCHANGED <<Info, RELAY_PUBKEY>>
  /\ \/ /\ CanExec(p, Stmt(p), call[p].id)
        /\ tx' = [tx EXCEPT ![p] = Exec(p, Stmt(p), call[p].id, v)]
        /\ Goto(p, NextPc(o, call[p].pc))
     \/ /\ Rollback(p)
        /\ Return(p, ErrStorage)
     \/ /\ Deadlocked(p)
        /\ Rollback(p)
        /\ Return(p, ErrDeadlock)

\* CommitTx whose failed commit leaves the writes behind.
CommitTx_AppliesOnFailure(p, o) ==
  /\ call[p].op = o
  /\ call[p].pc = "commit"
  /\ UNCHANGED <<allowed_pubkeys, banned_pubkeys, admins, allowed_order, newer>>
  /\ events_needing_moderation' = Apply(p, "events_needing_moderation")
  /\ allowed_events' = Apply(p, "allowed_events")
  /\ banned_events' = Apply(p, "banned_events")
  /\ allowed_kinds' = Apply(p, "allowed_kinds")
  /\ disallowed_kinds' = Apply(p, "disallowed_kinds")
  /\ \/ Return(p, ErrNone)
     \/ Return(p, ErrStorage)
  /\ Rollback(p)

\* tx.Commit(): all writes become visible at once, or the commit fails and
\* the transaction is rolled back.
CommitTx(p, o) ==
  /\ call[p].op = o
  /\ call[p].pc = "commit"
  /\ UNCHANGED <<allowed_pubkeys, banned_pubkeys, admins, allowed_order, newer>>
  /\ \/ /\ events_needing_moderation' = Apply(p, "events_needing_moderation")
        /\ allowed_events' = Apply(p, "allowed_events")
        /\ banned_events' = Apply(p, "banned_events")
        /\ allowed_kinds' = Apply(p, "allowed_kinds")
        /\ disallowed_kinds' = Apply(p, "disallowed_kinds")
        /\ Return(p, ErrNone)
     \/ /\ UNCHANGED <<events_needing_moderation, allowed_events, banned_events,
                       allowed_kinds, disallowed_kinds>>
        /\ Return(p, ErrStorage)
  /\ Rollback(p)

\* ------------------------------------------------------- event moderation
\* AddEventNeedingModeration: one auto-committed INSERT .. DO NOTHING.
AddEventNeedingModeration(p, id, reason) ==
  /\ Ready(p)
  /\ UNCHANGED <<allowed_pubkeys, banned_pubkeys, allowed_events, banned_events,
                 allowed_kinds, disallowed_kinds, admins, tx, allowed_order, newer>>
  /\ \/ /\ id = EmptyId
        /\ UNCHANGED events_needing_moderation
        /\ call' = Started(p, NewCall("AddEventNeedingModeration", id, reason, "done", ErrInvalidArgument))
     \/ /\ id # EmptyId
        /\ CanInsertIgnore(p, "events_needing_moderation", id)
        /\ events_needing_moderation' =
             IF events_needing_moderation[id] = NoRow
             THEN [events_needing_moderation EXCEPT ![id] = reason]
             ELSE events_needing_moderation
        /\ call' = Started(p, NewCall("AddEventNeedingModeration", id, reason, "done", ErrNone))
     \/ /\ id # EmptyId
        /\ UNCHANGED events_needing_moderation
        /\ call' = Started(p, NewCall("AddEventNeedingModeration", id, reason, "done", ErrStorage))

AllowEvent(p, Ids) ==
  \/ \E id \in Ids \cup {EmptyId}, reason \in Reasons : BeginTx(p, "AllowEvent", id, reason)
  \/ ExecTx(p, "AllowEvent", call[p].reason)
  \/ CommitTx(p, "AllowEvent")

BanEvent(p, Ids) ==
  \/ \E id \in Ids \cup {EmptyId}, reason \in Reasons : BeginTx(p, "BanEvent", id, reason)
  \/ ExecTx(p, "BanEvent", call[p].reason)
  \/ CommitTx(p, "BanEvent")

\* List queries: a SELECT sees the committed rows.
GetEventsNeedingModeration == {<<k, events_needing_moderation[k]>> : k \in {e \in EventIds : events_needing_moderation[e] # NoRow}}
GetAllowedEvents == {<<k, allowed_events[k]>> : k \in {e \in EventIds : allowed_events[e] # NoRow}}
GetBannedEvents == {<<k, banned_events[k]>> : k \in {e \in EventIds : banned_events[e] # NoRow}}

\* ----------------------------------------------------------------- kinds
AllowKind(p) ==
  \/ \E kind \in Kinds : BeginTx(p, "AllowKind", kind, NoRow)
  \/ ExecTx(p, "AllowKind", KindRow)
  \/ CommitTx(p, "AllowKind")

DisallowKind(p) ==
  \/ \E kind \in Kinds : BeginTx(p, "DisallowKind", kind, NoRow)
  \/ ExecTx(p, "DisallowKind", KindRow)
  \/ CommitTx(p, "DisallowKind")

GetAllowedKinds == {k \in Kinds : allowed_kinds[k] # NoRow}
GetDisallowedKinds == {k \in Kinds : disallowed_kinds[k] # NoRow}

\* --------------------------------------------------------- identities
Errors == {ErrNone, ErrInvalidArgument, ErrNotFound, ErrStorage}

\* The store operations on single relations are auto-committed statements;
\* each relates the relation before and after to the returned error e.
AddAllowedPubkey_LastWins(pubkey, reason, e) ==
  \/ /\ pubkey = EmptyId
     /\ e = ErrInvalidArgument
     /\ UNCHANGED <<allowed_pubkeys, allowed_order>>
  \/ /\ pubkey # EmptyId
     /\ e = ErrNone
     /\ allowed_pubkeys' = [allowed_pubkeys EXCEPT ![pubkey] = reason]
     /\ allowed_order' = Append(SelectSeq(allowed_order, LAMBDA x : x # pubkey), pubkey)
AddAllowedPubkey(pubkey, reason, e) ==
  \/ /\ pubkey = EmptyId
     /\ e = ErrInvalidArgument
     /\ UNCHANGED <<allowed_pubkeys, allowed_order>>
  \/ /\ pubkey # EmptyId
     /\ e = ErrStorage
     /\ UNCHANGED <<allowed_pubkeys, allowed_order>>
  \/ /\ pubkey # EmptyId
     /\ e = ErrNone
     /\ IF allowed_pubkeys[pubkey] = NoRow
        THEN /\ allowed_pubkeys' = [allowed_pubkeys EXCEPT ![pubkey] = reason]
             /\ allowed_order' = Append(allowed_order, pubkey)
        ELSE UNCHANGED <<allowed_pubkeys, allowed_order>>

\* A sequence without its entries equal to k.
Without(seq, k) == SelectSeq(seq, LAMBDA x : x # k)

RemoveAllowedPubkey_Silent(pubkey, e) ==
  \/ /\ pubkey = EmptyId
     /\ e = ErrInvalidArgument
     /\ UNCHANGED <<allowed_pubkeys, allowed_order>>
  \/ /\ pubkey # EmptyId
     /\ e = ErrNone
     /\ allowed_pubkeys' = [allowed_pubkeys EXCEPT ![pubkey] = NoRow]
     /\ allowed_order' = Without(allowed_order, pubkey)
RemoveAllowedPubkey(pubkey, e) ==
  \/ /\ pubkey = EmptyId
     /\ e = ErrInvalidArgument
     /\ UNCHANGED <<allowed_pubkeys, allowed_order>>
  \/ /\ pubkey # EmptyId
     /\ e = ErrStorage
     /\ UNCHANGED <<allowed_pubkeys, allowed_order>>
  \/ /\ pubkey # EmptyId
     /\ allowed_pubkeys[pubkey] = NoRow
     /\ e = ErrNotFound
     /\ UNCHANGED <<allowed_pubkeys, allowed_order>>
  \/ /\ pubkey # EmptyId
     /\ allowed_pubkeys[pubkey] # NoRow
     /\ e = ErrNone
     /\ allowed_pubkeys' = [allowed_pubkeys EXCEPT ![pubkey] = NoRow]
     /\ allowed_order' = Without(allowed_order, pubkey)

BanPubKey_FirstWins(pubkey, reason, e) ==
  \/ /\ pubkey = EmptyId
     /\ e = ErrInvalidArgument
     /\ UNCHANGED banned_pubkeys
  \/ /\ pubkey # EmptyId
     /\ e = ErrNone
     /\ IF banned_pubkeys[pubkey] = NoRow
        THEN banned_pubkeys' = [banned_pubkeys EXCEPT ![pubkey] = reason]
        ELSE UNCHANGED banned_pubkeys
BanPubKey(pubkey, reason, e) ==
  \/ /\ pubkey = EmptyId
     /\ e = ErrInvalidArgument
     /\ UNCHANGED banned_pubkeys
  \/ /\ pubkey # EmptyId
     /\ e = ErrStorage
     /\ UNCHANGED banned_pubkeys
  \/ /\ pubkey # EmptyId
     /\ e = ErrNone
     /\ banned_pubkeys' = [banned_pubkeys EXCEPT ![pubkey] = reason]

IsAllowedPubkey(pubkey) == pubkey # EmptyId /\ allowed_pubkeys[pubkey] # NoRow
\* SELECT .. FROM allowed_pubkeys ORDER BY created_at
GetAllowedPubkeys == allowed_order
GetAllowedPubkeysSet == {allowed_order[i] : i \in 1..Len(allowed_order)}
GetAllowedPubkeysWithReason ==
  [i \in 1..Len(allowed_order) |-> <<allowed_order[i], allowed_pubkeys[allowed_order[i]]>>]
GetBannedPubkeys == {<<k, banned_pubkeys[k]>> : k \in {i \in Pubkeys : banned_pubkeys[i] # NoRow}}

\* relay.ManagementAPI.AllowPubKey
ManagementAllowPubKey(p) ==
  /\ Ready(p)
  /\ UNCHANGED <<banned_pubkeys, events_needing_moderation, allowed_events,
                 banned_events, allowed_kinds, disallowed_kinds, admins, tx, newer>>
  /\ \E pubkey \in Pubkeys \cup {EmptyId}, reason \in Reasons, e \in Errors :
       /\ AddAllowedPubkey(pubkey, reason, e)
       /\ call' = Started(p, NewCall("AllowPubKey", pubkey, reason, "done", e))

\* relay.ManagementAPI.BanPubKey: RemoveAllowedPubkey, whose error is only
\* logged (kept in warn), then BanPubKey, whose error is returned.
ManagementBanPubKey(p) ==
  \/ /\ Ready(p)
     /\ UNCHANGED <<banned_pubkeys, events_needing_moderation, allowed_events,
                    banned_events, allowed_kinds, disallowed_kinds, admins, tx, newer>>
     /\ \E pubkey \in Pubkeys \cup {EmptyId}, reason \in Reasons, e \in Errors :
          /\ RemoveAllowedPubkey(pubkey, e)
          /\ call' = Started(p, [NewCall("BanPubKey", pubkey, reason, "ban", ErrNone)
                                   EXCEPT !.warn = e])
  \/ /\ call[p].op = "BanPubKey"
     /\ call[p].pc = "ban"
     /\ UNCHANGED <<allowed_pubkeys, events_needing_moderation, allowed_events,
                    banned_events, allowed_kinds, disallowed_kinds, admins, tx,
                    allowed_order, newer>>
     /\ \E e \in Errors :
          /\ BanPubKey(call[p].id, call[p].reason, e)
          /\ Return(p, e)

\* ----------------------------------------------------------------- admins
GrantAdmin_AddsMethods(pubkey, methods, e) ==
  \/ /\ pubkey = EmptyId
     /\ e = ErrInvalidArgument
     /\ UNCHANGED admins
  \/ /\ pubkey # EmptyId
     /\ e = ErrNone
     /\ admins' = [admins EXCEPT ![pubkey] =
                     [row |-> TRUE, methods |-> admins[pubkey].methods \cup methods]]
GrantAdmin(pubkey, methods, e) ==
  \/ /\ pubkey = EmptyId
     /\ e = ErrInvalidArgument
     /\ UNCHANGED admins
  \/ /\ pubkey # EmptyId
     /\ e = ErrStorage
     /\ UNCHANGED admins
  \/ /\ pubkey # EmptyId
     /\ e = ErrNone
     /\ admins' = [admins EXCEPT ![pubkey] = [row |-> TRUE, methods |-> methods]]

IsAdmin(pubkey) == pubkey \in Pubkeys /\ admins[pubkey].row
GetAdminMethods(pubkey) == IF pubkey \in Pubkeys THEN admins[pubkey].methods ELSE {}

\* relay.ManagementAPI.GrantAdmin
ManagementGrantAdmin(p) ==
  /\ Ready(p)
  /\ UNCHANGED <<allowed_pubkeys, banned_pubkeys, events_needing_moderation,
                 allowed_events, banned_events, allowed_kinds, disallowed_kinds, tx,
                 allowed_order, newer>>
  /\ \E pubkey \in Pubkeys \cup {EmptyId}, methods \in SUBSET Methods, e \in Errors :
       /\ GrantAdmin(pubkey, methods, e)
       /\ call' = Started(p, [NewCall("GrantAdmin", pubkey, NoRow, "done", e)
                                EXCEPT !.methods = methods])

\* The methods RevokeAdmin writes back: methodMap after the deletes.
newMethods_KeepsNamed(currentMethods, methods) == currentMethods \cap methods
newMethods(currentMethods, methods) == currentMethods \ methods

\* RevokeAdmin: with no methods named one DELETE; otherwise a SELECT of the
\* current methods (currentMethods, kept in cur) and, as a separate
\* statement, the DELETE or UPDATE that writes back newMethods, the current
\* methods without the named ones.
RevokeAdmin(p) ==
  \/ /\ Ready(p)
     /\ UNCHANGED <<allowed_pubkeys, banned_pubkeys, events_needing_moderation,
                    allowed_events, banned_events, allowed_kinds, disallowed_kinds, tx,
                    allowed_order, newer>>
     /\ \E pubkey \in Pubkeys \cup {EmptyId}, methods \in SUBSET Methods :
          LET c == [NewCall("RevokeAdmin", pubkey, NoRow, "done", ErrNone)
                      EXCEPT !.methods = methods]
          IN \/ /\ pubkey = EmptyId
                /\ UNCHANGED admins
                /\ call' = Started(p, [c EXCEPT !.err = ErrInvalidArgument])
             \/ /\ pubkey # EmptyId
                /\ UNCHANGED admins
                /\ call' = Started(p, [c EXCEPT !.err = ErrStorage])
             \/ /\ pubkey # EmptyId
                /\ methods = {}
                /\ admins' = [admins EXCEPT ![pubkey] = NoAdmin]
                /\ call' = Started(p, c)
             \/ /\ pubkey # EmptyId
                /\ methods # {}
                /\ ~admins[pubkey].row
                /\ UNCHANGED admins
                /\ call' = Started(p, c)
             \/ /\ pubkey # EmptyId
                /\ methods # {}
                /\ admins[pubkey].row
                /\ UNCHANGED admins
                /\ call' = Started(p, [c EXCEPT !.pc = "write",
                                                !.cur = admins[pubkey].methods])
  \/ /\ call[p].op = "RevokeAdmin"
     /\ call[p].pc = "write"
     /\ UNCHANGED <<allowed_pubkeys, banned_pubkeys, events_needing_moderation,
                    allowed_events, banned_events, allowed_kinds, disallowed_kinds, tx,
                    allowed_order, newer>>
     /\ LET new == newMethods(call[p].cur, call[p].methods)
        IN \/ /\ UNCHANGED admins
              /\ Return(p, ErrStorage)
           \/ /\ new = {}
              /\ admins' = [admins EXCEPT ![call[p].id] = NoAdmin]
              /\ Return(p, ErrNone)
           \/ /\ new # {}
              /\ admins' = IF admins[call[p].id].row
                           THEN [admins EXCEPT ![call[p].id].methods = new]
                           ELSE admins
              /\ Return(p, ErrNone)

\* ------------------------------------------------------------ blocked_ips
\* A net.IP is a byte slice: nil, or an address in its 4-byte or its 16-byte
\* form.  ip.String() is the same text for both forms of an address.
IPLens == {4, 16}
NilIP == <<0, 0>>
NetIPs == (Addrs \X IPLens) \cup {NilIP}
String(ip) == ip[1]

BlockIP(ip, reason, e) ==
  \/ /\ ip = NilIP
     /\ e = ErrInvalidArgument
     /\ UNCHANGED blocked_ips
  \/ /\ ip # NilIP
     /\ e = ErrStorage
     /\ UNCHANGED blocked_ips
  \/ /\ ip # NilIP
     /\ e = ErrNone
     /\ blocked_ips' = [blocked_ips EXCEPT ![String(ip)] = reason]

UnblockIP_NotFound(ip, e) ==
  \/ /\ ip = NilIP
     /\ e = ErrInvalidArgument
     /\ UNCHANGED blocked_ips
  \/ /\ ip # NilIP
     /\ e = IF blocked_ips[String(ip)] = NoRow THEN ErrNotFound ELSE ErrNone
     /\ blocked_ips' = [blocked_ips EXCEPT ![String(ip)] = NoRow]
UnblockIP(ip, e) ==
  \/ /\ ip = NilIP
     /\ e = ErrInvalidArgument
     /\ UNCHANGED blocked_ips
  \/ /\ ip # NilIP
     /\ e = ErrStorage
     /\ UNCHANGED blocked_ips
  \/ /\ ip # NilIP
     /\ e = ErrNone
     /\ blocked_ips' = [blocked_ips EXCEPT ![String(ip)] = NoRow]

GetBlockedIPs == {<<k, blocked_ips[k]>> : k \in {a \in Addrs : blocked_ips[a] # NoRow}}

\* relay.ManagementAPI.BlockIP; the call record keeps ip.String() in id.
ManagementBlockIP(p) ==
  /\ Ready(p)
  /\ UNCHANGED <<allowed_pubkeys, banned_pubkeys, events_needing_moderation,
                 allowed_events, banned_events, allowed_kinds, disallowed_kinds,
                 admins, allowed_order, relay_info, Info, RELAY_PUBKEY, tx>>
  /\ \E ip \in NetIPs, reason \in Reasons, e \in Errors :
       /\ BlockIP(ip, reason, e)
       /\ call' = Started(p, NewCall("BlockIP", String(ip), reason, "done", e))

\* relay.ManagementAPI.UnblockIP: the reason argument is not used.
ManagementUnblockIP(p) ==
  /\ Ready(p)
  /\ UNCHANGED <<allowed_pubkeys, banned_pubkeys, events_needing_moderation,
                 allowed_events, banned_events, allowed_kinds, disallowed_kinds,
                 admins, allowed_order, relay_info, Info, RELAY_PUBKEY, tx>>
  /\ \E ip \in NetIPs, e \in Errors :
       /\ UnblockIP(ip, e)
       /\ call' = Started(p, NewCall("UnblockIP", String(ip), NoRow, "done", e))

\* ------------------------------------------------------------- relay_info
SetRelayInfo_FirstWins(key, value, e) ==
  /\ e = ErrNone
  /\ relay_info' = IF relay_info[key].row THEN relay_info
                    ELSE [relay_info EXCEPT ![key] = [row |-> TRUE, value |-> value]]
SetRelayInfo(key, value, e) ==
  \/ /\ e = ErrStorage
     /\ UNCHANGED relay_info
  \/ /\ e = ErrNone
     /\ relay_info' = [relay_info EXCEPT ![key] = [row |-> TRUE, value |-> value]]

\* GetRelayInfo on a relay_info table: "" for sql.ErrNoRows.
GetRelayInfoIn(info, key) == IF info[key].row THEN info[key].value ELSE EmptyValue
GetRelayInfo(key) == GetRelayInfoIn(relay_info, key)

\* relay.Info is written without synchronisation.  Two handlers at their
\* assignment of different strings to the same field race: a racing write
\* may leave a string made of one writer's data pointer and the other's
\* length, which is neither value.
TornValue == -1
Written(p, o) ==
  {call[p].value} \cup
  (IF \E q \in Callers \ {p} : /\ call[q].op = o /\ call[q].pc = "assign"
                                /\ call[q].value # call[p].value
   THEN {TornValue} ELSE {})

\* ChangeRelayName, ChangeRelayDescription, ChangeRelayIcon: SetRelayInfo,
\* whose error is returned, and then the assignment to relay.Info.
ChangeRelayInfo(p, o, key) ==
  \/ /\ Ready(p)
     /\ UNCHANGED <<allowed_pubkeys, banned_pubkeys, events_needing_moderation,
                    allowed_events, banned_events, allowed_kinds, disallowed_kinds,
                    admins, allowed_order, blocked_ips, Info, RELAY_PUBKEY, tx>>
     /\ \E value \in InfoValues, e \in Errors :
          /\ SetRelayInfo(key, value, e)
          /\ call' = Started(p, [NewCall(o, EmptyId, NoRow,
                                         IF e = ErrNone THEN "assign" ELSE "done", e)
                                   EXCEPT !.value = value])
  \/ /\ call[p].op = o
     /\ call[p].pc = "assign"
     /\ UnchangedTables
     /\ UNCHANGED <<RELAY_PUBKEY, tx>>
     /\ \E v \in Written(p, o) : Info' = [Info EXCEPT ![key] = v]
     /\ Return(p, ErrNone)

ChangeRelayName(p) == ChangeRelayInfo(p, "ChangeRelayName", "name")
ChangeRelayDescription(p) == ChangeRelayInfo(p, "ChangeRelayDescription", "description")
ChangeRelayIcon(p) == ChangeRelayInfo(p, "ChangeRelayIcon", "icon")

\* ------------------------------------------------ authorization hooks
ErrRejected == "go away, intruder"

\* getEnv("RELAY_PUBKEY", ""): the variable's value, "" when it is not set.
ownerPubKey == RELAY_PUBKEY

\* relay.ManagementAPI.RejectAPICall: TRUE rejects the call.
RejectAPICall(user) == user # ownerPubKey

\* A management request by an authenticated user (EmptyId: nobody
\* authenticated): RejectAPICall first, and the method's handler only when it
\* did not reject.
Rejected(p, o, user) ==
  /\ RejectAPICall(user)
  /\ UnchangedTables
  /\ call' = Started(p, [NewCall(o, EmptyId, NoRow, "done", ErrRejected)
                           EXCEPT !.user = user, !.reject = TRUE])

APIAllowPubKey(p) ==
  /\ Ready(p)
  /\ UNCHANGED <<tx, Info, RELAY_PUBKEY>>
  /\ \E user \in Pubkeys \cup {EmptyId} :
       \/ Rejected(p, "allowpubkey", user)
       \/ /\ ~RejectAPICall(user)
          /\ UNCHANGED <<banned_pubkeys, events_needing_moderation, allowed_events,
                         banned_events, allowed_kinds, disallowed_kinds, admins,
                         blocked_ips, relay_info>>
          /\ \E pubkey \in Pubkeys \cup {EmptyId}, reason \in Reasons, e \in Errors :
               /\ AddAllowedPubkey(pubkey, reason, e)
               /\ call' = Started(p, [NewCall("allowpubkey", pubkey, reason, "done", e)
                                        EXCEPT !.user = user])

APIGrantAdmin(p) ==
  /\ Ready(p)
  /\ UNCHANGED <<tx, Info, RELAY_PUBKEY>>
  /\ \E user \in Pubkeys \cup {EmptyId} :
       \/ Rejected(p, "grantadmin", user)
       \/ /\ ~RejectAPICall(user)
          /\ UNCHANGED <<allowed_pubkeys, banned_pubkeys, events_needing_moderation,
                         allowed_events, banned_events, allowed_kinds, disallowed_kinds,
                         allowed_order, blocked_ips, relay_info>>
          /\ \E pubkey \in Pubkeys \cup {EmptyId}, methods \in SUBSET Methods, e \in Errors :
               /\ GrantAdmin(pubkey, methods, e)
               /\ call' = Started(p, [NewCall("grantadmin", pubkey, NoRow, "done", e)
                                        EXCEPT !.methods = methods, !.user = user])

\* The relay.RejectEvent policy on the looked-up (isAllowed, err): TRUE
\* rejects the event.
RejectEvent_FailOpen(pubkey, isAllowed, err) ==
  ~(isAllowed \/ err # ErrNone \/ (ownerPubKey # EmptyId /\ pubkey = ownerPubKey))
RejectEvent(pubkey, isAllowed, err) ==
  IF err # ErrNone THEN TRUE
  ELSE IF isAllowed \/ (ownerPubKey # EmptyId /\ pubkey = ownerPubKey) THEN FALSE
  ELSE TRUE

\* An inbound event by author pubkey: IsAllowedPubkey, which fails only when
\* it queries, then the policy. The outcome is kept in the call record.
OnEvent(p) ==
  /\ Ready(p)
  /\ UnchangedTables
  /\ UNCHANGED <<tx, Info, RELAY_PUBKEY>>
  /\ \E pubkey \in Pubkeys \cup {EmptyId}, err \in {ErrNone, ErrStorage} :
       /\ pubkey = EmptyId => err = ErrNone
       /\ LET isAllowed == err = ErrNone /\ IsAllowedPubkey(pubkey)
          IN call' = Started(p, [NewCall("RejectEvent", pubkey, NoRow, "done", err)
                                   EXCEPT !.reject = RejectEvent(pubkey, isAllowed, err)])

\* ------------------------------------------------------- specifications
\* Event moderation by the callers C on the event ids Ids.
NextEvents(C, Ids) ==
  \E p \in C :
    \/ \E id \in Ids \cup {EmptyId}, reason \in Reasons : AddEventNeedingModeration(p, id, reason)
    \/ AllowEvent(p, Ids)
    \/ BanEvent(p, Ids)

NextKinds(C) == \E p \in C : AllowKind(p) \/ DisallowKind(p)

NextIdentity(C) == \E p \in C : ManagementAllowPubKey(p) \/ ManagementBanPubKey(p)

NextAdmin(C) == \E p \in C : ManagementGrantAdmin(p) \/ RevokeAdmin(p)

NextAddr(C) == \E p \in C : ManagementBlockIP(p) \/ ManagementUnblockIP(p)

NextInfo(C) == \E p \in C : ChangeRelayName(p) \/ ChangeRelayDescription(p) \/ ChangeRelayIcon(p)

NextAuth(C) == \E p \in C : APIAllowPubKey(p) \/ APIGrantAdmin(p) \/ OnEvent(p)

\* Concurrent moderation of one event id.
SpecEventsConc == Init /\ [][NextEvents(Callers, ModeratedIds)]_vars

\* Concurrent kind management.
\* Moderation calls on two event ids, one after the other.
SpecEventsSeq == Init /\ [][NextEvents(OneCaller, TwoIds)]_vars

SpecKinds == Init /\ [][NextKinds(Callers)]_vars

\* The transactional operations, one call at a time.
SpecTx == Init /\ [][NextEvents(OneCaller, ModeratedIds) \/ NextKinds(OneCaller)]_vars

\* Concurrent identity management.
SpecIdentity == Init /\ [][NextIdentity(Callers)]_vars

\* Concurrent admin management.
SpecAdmin == Init /\ [][NextAdmin(Callers)]_vars

\* Every operation, by every caller.
\* Concurrent BlockIP / UnblockIP calls.
SpecAddr == Init /\ [][NextAddr(Callers)]_vars

\* Relay metadata changes, one after the other.
SpecInfo == Init /\ [][NextInfo(OneCaller)]_vars

\* The identity handlers called one after the other, for two pubkeys.
TwoPubkeys == {1, 2}
SpecIdentitySeq ==
  Init /\ [][NextIdentity(OneCaller) /\ call'[1].id \in TwoPubkeys \cup {EmptyId}]_vars

\* The admin handlers called one after the other.
SpecAdminSeq == Init /\ [][NextAdmin(OneCaller)]_vars

\* Inbound events and gated allowpubkey calls, for any configured owner.
SpecHook == InitConfigured /\ [][\E p \in OneCaller : APIAllowPubKey(p) \/ OnEvent(p)]_vars

\* Concurrent ChangeRelayName calls.
SpecInfoConc == Init /\ [][\E p \in Callers : ChangeRelayName(p)]_vars

\* The number of rows in the store.
Rows ==
  Cardinality({k \in EventIds : events_needing_moderation[k] # NoRow})
  + Cardinality({k \in EventIds : allowed_events[k] # NoRow})
  + Cardinality({k \in EventIds : banned_events[k] # NoRow})
  + Cardinality({k \in Kinds : allowed_kinds[k] # NoRow})
  + Cardinality({k \in Kinds : disallowed_kinds[k] # NoRow})
  + Cardinality({k \in Pubkeys : allowed_pubkeys[k] # NoRow})
  + Cardinality({k \in Pubkeys : banned_pubkeys[k] # NoRow})
  + Cardinality({k \in Pubkeys : admins[k].row})
  + Cardinality({k \in Addrs : blocked_ips[k] # NoRow})
  + Cardinality({k \in InfoKeys : relay_info[k].row})

\* Calls of every family, one after the other; a call starts only while the
\* store holds at most MaxRows rows.
MayStep == Rows <= MaxRows \/ \E p \in OneCaller : Active(p)

NextFrame ==
  \/ MayStep /\ NextEvents(OneCaller, EventIds)
  \/ MayStep /\ NextKinds(OneCaller)
  \/ MayStep /\ NextIdentity(OneCaller)
  \/ MayStep /\ NextAdmin(OneCaller)
  \/ MayStep /\ NextAddr(OneCaller)
  \/ MayStep /\ NextInfo(OneCaller)

SpecFrame == Init /\ [][NextFrame]_vars

\* Requests through the authorization hooks, for any configured owner.
SpecAuth == InitConfigured /\ [][NextAuth(OneCaller)]_vars

Next ==
  \/ NextEvents(Callers, EventIds)
  \/ NextKinds(Callers)
  \/ NextIdentity(Callers)
  \/ NextAdmin(Callers)
  \/ NextAddr(Callers)
  \/ NextInfo(Callers)
  \/ NextAuth(Callers)

Spec == InitConfigured /\ [][Next]_vars

\* ------------------------------------------------------------ properties
InPending(e) == \E r \in GetEventsNeedingModeration : r[1] = e
InAllowed(e) == \E r \in GetAllowedEvents : r[1] = e
InBanned(e) == \E r \in GetBannedEvents : r[1] = e

\* The call of p has returned nil and no other call overlapped it.
Succeeded(p, o) ==
  /\ call[p].op = o
  /\ call[p].pc = "done"
  /\ call[p].err = ErrNone
Alone(p) == ~call[p].interfered

\* The step is one of p's own call (not another call's start touching the
\* record of p).
StepOf(p) ==
  /\ call'[p].pc # "idle"
  /\ <<call'[p].op, call'[p].id, call'[p].reason, call'[p].pc, call'[p].err>>
       # <<call[p].op, call[p].id, call[p].reason, call[p].pc, call[p].err>>

\* C1: after AllowEvent(e, r) has returned nil, not overlapped by another
\* call, e is listed as allowed with reason r and is neither pending nor
\* banned; after BanEvent(e, r), e is banned with reason r and is neither
\* pending nor allowed.
C1_AdjudicationPostcondition ==
  \A p \in Callers :
    /\ (Succeeded(p, "AllowEvent") /\ Alone(p)) =>
         /\ <<call[p].id, call[p].reason>> \in GetAllowedEvents
         /\ ~InPending(call[p].id)
         /\ ~InBanned(call[p].id)
    /\ (Succeeded(p, "BanEvent") /\ Alone(p)) =>
         /\ <<call[p].id, call[p].reason>> \in GetBannedEvents
         /\ ~InPending(call[p].id)
         /\ ~InAllowed(call[p].id)

C1_Witness ==
  \E p \in Callers :
    /\ Succeeded(p, "BanEvent")
    /\ Alone(p)
    /\ <<call[p].id, call[p].reason>> \in GetBannedEvents

\* C2: once a concurrent AllowEvent(e) and BanEvent(e) have both returned
\* nil, e is in exactly one of AllowedEvent and BannedEvent.
C2_ExactlyOneAfterRace ==
  \A p, q \in Callers :
    (/\ Succeeded(p, "AllowEvent") /\ ~Alone(p)
     /\ Succeeded(q, "BanEvent") /\ ~Alone(q)
     /\ call[p].id = call[q].id)
    => (InAllowed(call[p].id) # InBanned(call[p].id))

\* C3: AllowEvent, BanEvent, AllowKind and DisallowKind return nil only from
\* their commit; every other step of theirs (a failed Begin, a statement,
\* a failed statement or commit) leaves the committed rows of every relation
\* unchanged, and a call that has returned holds no uncommitted write.
C3_AllOrNothing ==
  [][\A p \in Callers :
       (StepOf(p) /\ call'[p].op \in TxOps) =>
         /\ (call'[p].pc = "done" /\ call'[p].err = ErrNone) => call[p].pc = "commit"
         /\ ~(call'[p].pc = "done" /\ call'[p].err = ErrNone) => tables' = tables
         /\ call'[p].pc = "done" => tx'[p] = {}]_vars

C3_Witness ==
  \E p \in Callers :
    /\ call[p].op = "AllowEvent"
    /\ call[p].pc = "done"
    /\ call[p].err = ErrStorage
    /\ InBanned(call[p].id)
    /\ InPending(call[p].id)
    /\ ~InAllowed(call[p].id)

\* C4: while one transactional operation is in flight, what the list queries
\* return never shows a partial state: an event id listed anywhere stays
\* listed somewhere, an id not in both terminal lists never comes to be in
\* both, and a kind in exactly one kind list stays in exactly one.
C4_NoPartialStateObservable ==
  [][/\ \A e \in EventIds :
          /\ (InPending(e) \/ InAllowed(e) \/ InBanned(e))
               => (InPending(e) \/ InAllowed(e) \/ InBanned(e))'
          /\ ~(InAllowed(e) /\ InBanned(e)) => ~(InAllowed(e) /\ InBanned(e))'
     /\ \A k \in Kinds :
          ((k \in GetAllowedKinds) # (k \in GetDisallowedKinds))
            => ((k \in GetAllowedKinds) # (k \in GetDisallowedKinds))']_vars

C4_Witness ==
  \E p \in Callers :
    /\ call[p].op = "BanEvent"
    /\ call[p].pc = "commit"
    /\ \E w \in tx[p] : w.tbl = "allowed_events" /\ w.val = NoRow
    /\ InAllowed(call[p].id)
    /\ ~InBanned(call[p].id)

\* C5: after AllowKind(k) has returned nil, not overlapped by another call,
\* k is in AllowedKind and not in DisallowedKind; after DisallowKind(k), k
\* is in DisallowedKind and not in AllowedKind: k is in exactly the list the
\* last call names.
C5_KindPostcondition ==
  \A p \in Callers :
    /\ (Succeeded(p, "AllowKind") /\ Alone(p)) =>
         (call[p].id \in GetAllowedKinds /\ call[p].id \notin GetDisallowedKinds)
    /\ (Succeeded(p, "DisallowKind") /\ Alone(p)) =>
         (call[p].id \in GetDisallowedKinds /\ call[p].id \notin GetAllowedKinds)

C5_Witness ==
  \E p \in Callers :
    /\ Succeeded(p, "AllowKind")
    /\ Alone(p)
    /\ call[p].id \in GetAllowedKinds
    /\ \E k \in Kinds : k \in GetDisallowedKinds

\* C6: no kind is in both AllowedKind and DisallowedKind.
C6_KindListsExclusive ==
  \A k \in Kinds : ~(k \in GetAllowedKinds /\ k \in GetDisallowedKinds)

\* C7: an event id in AllowedEvent or BannedEvent is not in
\* PendingModerationEvent.
C7_AdjudicatedNotPending ==
  \A e \in EventIds : (InAllowed(e) \/ InBanned(e)) => ~InPending(e)

\* C8: after the management BanPubKey(id, reason) has returned nil, not
\* overlapped by another call, id is in BannedIdentity and not in
\* AllowedIdentity.
C8_BannedNotAllowed ==
  \A p \in Callers :
    (Succeeded(p, "BanPubKey") /\ Alone(p)) =>
      /\ \E r \in GetBannedPubkeys : r[1] = call[p].id
      /\ ~IsAllowedPubkey(call[p].id)

\* C9: the removal from AllowedIdentity does not show before the ban does,
\* and when the ban step fails the identity is still in AllowedIdentity.
C9_BanChoreographyAtomic ==
  \A p \in Callers :
    (call[p].op = "BanPubKey" /\ call[p].warn = ErrNone) =>
      /\ call[p].pc = "ban" => IsAllowedPubkey(call[p].id)
      /\ (call[p].pc = "done" /\ call[p].err # ErrNone /\ Alone(p))
           => IsAllowedPubkey(call[p].id)

\* C10: an AdminGrant row exists only with a non-empty method set: IsAdmin(id)
\* only when GetAdminMethods(id) is non-empty.
C10_NoEmptyGrant ==
  \A id \in Pubkeys : IsAdmin(id) => GetAdminMethods(id) # {}
\* C11: a management call by an authenticated caller is permitted exactly
\* when the caller is the configured owner or holds a grant in admins.
C11_PermittedIffOwnerOrAdmin ==
  \A p \in Callers :
    (call[p].op \in {"allowpubkey", "grantadmin"} /\ call[p].pc = "done"
       /\ call[p].user # EmptyId)
    => (~call[p].reject <=> (call[p].user = ownerPubKey \/ IsAdmin(call[p].user)))

\* C12: the event hook accepts exactly when the lookup succeeded and the
\* author is allowed or is the configured, non-empty owner; a failed lookup
\* rejects also the owner.
C12_AcceptIffAllowedOrOwner ==
  \A p \in Callers :
    (call[p].op = "RejectEvent" /\ call[p].pc = "done")
    => /\ ~call[p].reject <=>
            /\ call[p].err = ErrNone
            /\ \/ call[p].id \in GetAllowedPubkeysSet
               \/ (RELAY_PUBKEY # EmptyId /\ call[p].id = RELAY_PUBKEY)
       /\ call[p].err # ErrNone => call[p].reject

\* The owner's event was rejected on a failed lookup.
C12_Witness ==
  \E p \in Callers :
    /\ call[p].op = "RejectEvent" /\ call[p].pc = "done"
    /\ call[p].err = ErrStorage /\ call[p].id = RELAY_PUBKEY /\ call[p].reject

\* The step in which a call of p starts: nobody else moves.
Begins(p) ==
  /\ Ready(p)
  /\ call'[p].pc # "idle"
  /\ \A q \in Callers \ {p} : call'[q].pc \in {call[q].pc, "idle"}

\* Every relation but allowed_pubkeys (with its created_at order) is unchanged.
OnlyAllowedPubkeysMayChange ==
  UNCHANGED <<banned_pubkeys, events_needing_moderation, allowed_events, banned_events,
              allowed_kinds, disallowed_kinds, admins, blocked_ips, relay_info>>

\* C13: RemoveAllowedPubkey("") fails with the invalid-argument error, for a
\* pubkey that is not allowed it fails with the not-found error, both
\* leaving every relation unchanged; for an allowed pubkey it succeeds and
\* removes exactly that pubkey (a storage error aside).
C13_RemoveAllowedPubkey ==
  [][\A p \in Callers :
       (Begins(p) /\ call'[p].op = "BanPubKey" /\ call'[p].pc = "ban")
       => LET id == call'[p].id
              e == call'[p].warn
          IN /\ id = EmptyId => e = ErrInvalidArgument
             /\ (id # EmptyId /\ id \notin GetAllowedPubkeysSet) => e \in {ErrNotFound, ErrStorage}
             /\ e # ErrNone => tables' = tables
             /\ (id # EmptyId /\ id \in GetAllowedPubkeysSet) => e \in {ErrNone, ErrStorage}
             /\ e = ErrNone =>
                  /\ id \in GetAllowedPubkeysSet
                  /\ allowed_pubkeys' = [allowed_pubkeys EXCEPT ![id] = NoRow]
                  /\ allowed_order' = Without(allowed_order, id)
                  /\ OnlyAllowedPubkeysMayChange]_vars

\* A removal failed with the not-found error while another pubkey is allowed.
C13_Witness ==
  \E p \in Callers :
    /\ call[p].op = "BanPubKey" /\ call[p].pc = "ban"
    /\ call[p].warn = ErrNotFound
    /\ GetAllowedPubkeysSet # {}

\* C14: AddAllowedPubkey is first-write-wins: a call for a pubkey that is
\* already allowed succeeds and leaves its row, reason and created_at
\* position as they were; a call for a new pubkey adds one row at the end;
\* the pubkey is listed exactly once; AddAllowedPubkey("") fails and adds
\* nothing.
C14_AddAllowedFirstWriteWins ==
  [][\A p \in Callers :
       (Begins(p) /\ call'[p].op = "AllowPubKey")
       => LET id == call'[p].id
              e == call'[p].err
          IN /\ id = EmptyId => e = ErrInvalidArgument
             /\ id # EmptyId => e \in {ErrNone, ErrStorage}
             /\ e # ErrNone => tables' = tables
             /\ e = ErrNone =>
                  /\ OnlyAllowedPubkeysMayChange
                  /\ Cardinality({i \in 1..Len(allowed_order') : allowed_order'[i] = id}) = 1
                  /\ IF id \in GetAllowedPubkeysSet
                     THEN UNCHANGED <<allowed_pubkeys, allowed_order>>
                     ELSE /\ allowed_pubkeys' = [allowed_pubkeys EXCEPT ![id] = call'[p].reason]
                          /\ allowed_order' = Append(allowed_order, id)]_vars

\* A second call with another reason returned nil; the first pubkey added is
\* still the first listed, with the first reason.
C14_Witness ==
  \E p \in Callers :
    /\ Succeeded(p, "AllowPubKey")
    /\ Len(allowed_order) = 2
    /\ call[p].id = allowed_order[1]
    /\ allowed_pubkeys[call[p].id] # call[p].reason

\* C18: the store's BanPubKey for a non-empty pubkey writes banned_pubkeys
\* only: on nil the pubkey has one row, with this call's reason, the other
\* rows are as before, and allowed_pubkeys is unchanged.
C18_BanPubKeySingleRelation ==
  [][\A p \in Callers :
       (call[p].op = "BanPubKey" /\ call[p].pc = "ban" /\ call'[p].pc = "done")
       => LET id == call[p].id
              e == call'[p].err
          IN /\ id = EmptyId => e = ErrInvalidArgument
             /\ id # EmptyId => e \in {ErrNone, ErrStorage}
             /\ UNCHANGED <<allowed_pubkeys, allowed_order, events_needing_moderation,
                            allowed_events, banned_events, allowed_kinds, disallowed_kinds,
                            admins, blocked_ips, relay_info>>
             /\ e # ErrNone => UNCHANGED banned_pubkeys
             /\ e = ErrNone =>
                  /\ banned_pubkeys' = [banned_pubkeys EXCEPT ![id] = call[p].reason]
                  /\ Cardinality({r \in GetBannedPubkeys' : r[1] = id}) = 1]_vars

\* A ban returned nil for a pubkey that is on the allowed list at that moment.
C18_Witness ==
  \E p \in Callers :
    /\ Succeeded(p, "BanPubKey")
    /\ banned_pubkeys[call[p].id] = call[p].reason
    /\ call[p].id \in GetAllowedPubkeysSet

C17_UnblockIP ==
  [][\A p \in Callers :
       (Begins(p) /\ call'[p].op = "UnblockIP")
       => LET a == call'[p].id
              e == call'[p].err
          IN /\ UNCHANGED <<allowed_pubkeys, allowed_order, banned_pubkeys,
                            events_needing_moderation, allowed_events, banned_events,
                            allowed_kinds, disallowed_kinds, admins, relay_info>>
             /\ a \notin Addrs => (e = ErrInvalidArgument /\ UNCHANGED blocked_ips)
             /\ a \in Addrs => 
                  /\ e \in {ErrNone, ErrStorage}
                  /\ e = ErrStorage => UNCHANGED blocked_ips
                  /\ (e = ErrNone /\ blocked_ips[a] = NoRow) => UNCHANGED blocked_ips
                  /\ (e = ErrNone /\ blocked_ips[a] # NoRow) =>
                       blocked_ips' = [blocked_ips EXCEPT ![a] = NoRow]]_vars

\* An address that is not blocked was unblocked with nil while another
\* address is blocked.
C17_Witness ==
  \E p \in Callers :
    /\ Succeeded(p, "UnblockIP")
    /\ \E r \in GetBlockedIPs : r[1] # call[p].id

\* The handler that sets key k.
ChangeOp(k) ==
  IF k = "name" THEN "ChangeRelayName"
  ELSE IF k = "description" THEN "ChangeRelayDescription" ELSE "ChangeRelayIcon"

\* C19: GetRelayInfo(k) is "" with no error for a key never set; a
\* SetRelayInfo(k, v) that returns nil makes it v and leaves the other keys
\* as they were; nothing else changes what GetRelayInfo returns.
C19_MetadataLastWriteWins ==
  /\ \A k \in InfoKeys : GetRelayInfo(k) = EmptyValue
  /\ [][\A k \in InfoKeys :
          IF \E p \in Callers : Begins(p) /\ call'[p].op = ChangeOp(k) /\ call'[p].err = ErrNone
          THEN \E p \in Callers :
                 /\ call'[p].pc = "assign"
                 /\ GetRelayInfoIn(relay_info', k) = call'[p].value
          ELSE GetRelayInfoIn(relay_info', k) = GetRelayInfo(k)]_vars

\* The name was set a second time, to another value than is advertised.
C19_Witness ==
  \E p \in Callers :
    /\ call[p].op = "ChangeRelayName" /\ call[p].pc = "assign"
    /\ GetRelayInfo("name") = call[p].value
    /\ Info["name"] # call[p].value
    /\ Info["name"] # DefaultInfo["name"]
    /\ GetRelayInfo("icon") # EmptyValue

\* The step is the successful commit of operation o on event e.
Commits(o, e) ==
  \E p \in Callers :
    /\ call[p].op = o /\ call[p].id = e /\ call[p].pc = "commit"
    /\ call'[p].pc = "done" /\ call'[p].err = ErrNone

\* C20: with the calls made one after the other, an event that is allowed
\* or banned stays allowed or banned through every step of every
\* AddEventNeedingModeration, AllowEvent and BanEvent call, on it or on
\* another id, failed or not; its lists change only from allowed to banned
\* by a BanEvent on it and from banned to allowed by an AllowEvent on it.
C20_AdjudicationNeverUndone ==
  [][\A e \in EventIds :
       ((InAllowed(e) \/ InBanned(e))
          /\ (InAllowed(e)' # InAllowed(e) \/ InBanned(e)' # InBanned(e)))
       => \/ /\ InAllowed(e) /\ ~InBanned(e)
             /\ InBanned(e)' /\ ~InAllowed(e)'
             /\ Commits("BanEvent", e)
          \/ /\ InBanned(e) /\ ~InAllowed(e)
             /\ InAllowed(e)' /\ ~InBanned(e)'
             /\ Commits("AllowEvent", e)]_vars

\* Event 1 was banned by a call that returned nil, while event 2 is allowed
\* and a later call on it is in flight.
C20_Witness ==
  /\ InBanned(1) /\ ~InAllowed(1)
  /\ InAllowed(2) /\ ~InBanned(2)
  /\ \E p \in Callers : call[p].op = "BanEvent" /\ call[p].id = 2 /\ call[p].pc = "commit"

\* C21: a management call with no authenticated pubkey is rejected by
\* RejectAPICall whether or not RELAY_PUBKEY is set, and with RELAY_PUBKEY
\* unset no call passes by the comparison with the owner.
C21_UnauthenticatedRejected ==
  \A p \in Callers :
    (call[p].op \in {"allowpubkey", "grantadmin"} /\ call[p].pc = "done")
    => /\ call[p].user = EmptyId => call[p].reject
       /\ (RELAY_PUBKEY = EmptyId /\ call[p].user = RELAY_PUBKEY) => call[p].reject

\* C22: once two overlapping RevokeAdmin calls on the same pubkey, both
\* naming methods, have both returned nil, the stored methods are the ones
\* they read without the methods named by either, and the row is gone when
\* none is left.
C22_NoLostRevocation ==
  \A p, q \in Callers :
    (p # q /\ Succeeded(p, "RevokeAdmin") /\ Succeeded(q, "RevokeAdmin")
       /\ call[p].id = call[q].id
       /\ call[p].methods # {} /\ call[q].methods # {}
       /\ call[p].cur = call[q].cur)
    => LET left == call[p].cur \ (call[p].methods \cup call[q].methods)
       IN IF left = {} THEN ~IsAdmin(call[p].id)
          ELSE IsAdmin(call[p].id) /\ GetAdminMethods(call[p].id) = left

\* C23: whenever no ChangeRelayName call is in flight and a name has been
\* stored, relay.Info.Name is GetRelayInfo("name"); and a ChangeRelayName
\* whose SetRelayInfo fails leaves relay.Info.Name as it was.
C23_AdvertisedNameIsStoredName ==
  /\ []((relay_info["name"].row /\ \A p \in Callers : Ready(p))
         => Info["name"] = GetRelayInfo("name"))
  /\ [][\A p \in Callers :
          (Begins(p) /\ call'[p].op = "ChangeRelayName" /\ call'[p].err # ErrNone)
          => (call'[p].pc = "done" /\ Info' = Info)]_vars

\* The families of relations and the operations that write them.
EventOps == {"AddEventNeedingModeration", "AllowEvent", "BanEvent"}
KindOps == {"AllowKind", "DisallowKind"}
IdentityOps == {"AllowPubKey", "BanPubKey"}
AdminOps == {"GrantAdmin", "RevokeAdmin"}
AddrOps == {"BlockIP", "UnblockIP"}
InfoOps == {"ChangeRelayName", "ChangeRelayDescription", "ChangeRelayIcon"}

\* The rows of a family under every key but k are unchanged (k outside the
\* key set: the whole family is unchanged).
EventsKept(k) ==
  \A e \in EventIds \ {k} :
    /\ events_needing_moderation'[e] = events_needing_moderation[e]
    /\ allowed_events'[e] = allowed_events[e]
    /\ banned_events'[e] = banned_events[e]
KindsKept(k) ==
  \A j \in Kinds \ {k} :
    allowed_kinds'[j] = allowed_kinds[j] /\ disallowed_kinds'[j] = disallowed_kinds[j]
IdentitiesKept(k) ==
  /\ \A j \in Pubkeys \ {k} :
       allowed_pubkeys'[j] = allowed_pubkeys[j] /\ banned_pubkeys'[j] = banned_pubkeys[j]
  /\ Without(allowed_order', k) = Without(allowed_order, k)
AdminsKept(k) == \A j \in Pubkeys \ {k} : admins'[j] = admins[j]
AddrsKept(k) == \A j \in Addrs \ {k} : blocked_ips'[j] = blocked_ips[j]
InfoKept(k) == \A j \in InfoKeys \ {k} : relay_info'[j] = relay_info[j]

\* C24: every step of an operation on key k changes rows under k in its own
\* family only: an event operation keeps every other event id's rows and
\* all kind, identity, admin, address and metadata rows, and likewise for
\* the operations of the other five families.
C24_OwnKeyOwnFamily ==
  [][\A p \in OneCaller :
       LET o == call'[p].op
           k == call'[p].id
       IN /\ EventsKept(IF o \in EventOps THEN k ELSE EmptyId)
          /\ KindsKept(IF o \in KindOps THEN k ELSE EmptyId)
          /\ IdentitiesKept(IF o \in IdentityOps THEN k ELSE EmptyId)
          /\ AdminsKept(IF o \in AdminOps THEN k ELSE EmptyId)
          /\ AddrsKept(IF o \in AddrOps THEN k ELSE EmptyId)
          /\ \A j \in InfoKeys :
               (o \notin InfoOps \/ o # ChangeOp(j)) => relay_info'[j] = relay_info[j]]_vars

\* BanEvent on event 1 has committed while a pubkey is on the allowed list.
C24_Witness ==
  \E p \in OneCaller :
    /\ Succeeded(p, "BanEvent") /\ call[p].id = 1
    /\ InBanned(1)
    /\ GetAllowedPubkeysSet # {}

====
